---- MODULE Spec2Model ----
(***************************************************************************)
(* Model of the ABOVE webview engine adapter (native/src/platform/edge.cpp)*)
(* and of the script runtime shim it injects into every page.              *)
(*                                                                         *)
(* The module holds several specifications over one set of variables:      *)
(*   SpecShim     the in-page shim: Queue, IndexAllocator, WebView         *)
(*   SpecAdapter  Edge::Edge (bootstrap), Edge::run's message pump, the    *)
(*                work queue, idle, quit, the window procedure and         *)
(*                webviewNavigationComplete; FairAdapter adds a UI thread  *)
(*                that keeps running                                       *)
(*   SpecWindow   set_min_size / set_max_size / set_size and the window    *)
(*                procedure's WM_GETMINMAXINFO and WM_SIZE handling        *)
(*   SpecDispatch Edge::webviewMessageReceived                             *)
(*   SpecNavigate Edge::run's choice of the address it navigates to        *)
(* Each specification moves its own variables and leaves the others alone. *)
(***************************************************************************)
EXTENDS Integers, Sequences, FiniteSets, TLC

VARIABLES
    \* ---- script runtime shim (edge.cpp:291-381) ----
    elements,    \* Queue.elements: position -> stored index
    head,        \* Queue.head
    tail,        \* Queue.tail
    results,     \* WebView.results: key -> id of the call whose pair is stored
    posted,      \* messages handed to window.chrome.webview.postMessage
    calls,       \* history: calls[k] is the index invoke number k obtained
    completed,   \* history: ids of the calls __free_result has completed
    exhausted,   \* history: some invoke found the free list empty
    reused,      \* history: some invoke obtained an index still in flight
    \* ---- engine adapter (edge.cpp:41-250, 289-446) ----
    edge,        \* the Edge object's fields
    thread,      \* the UI thread: where it is in Edge::Edge / Edge::run, and
                 \* its native message queue
    engine,      \* the engine runtime: its asynchronous operations
    obs,         \* history: what the run has done so far
    \* ---- window sizing (edge.cpp:67-79, 252-287) ----
    sizes,       \* scale, minSize, maxSize, the style's maximize box, the
                 \* window's size and the controller's bounds
    mmi,         \* the MINMAXINFO the last WM_GETMINMAXINFO left
    sizeObs,     \* history: the last arguments of the setters
    \* ---- message dispatch (edge.cpp:104-141) ----
    callbacks,   \* the callback registry: the registered names
    inbound,     \* history: the last inbound message and what became of it
    \* ---- navigation (edge.cpp:383-394) ----
    nav          \* run's target, the process's working directory and code
                 \* page, and the navigations issued

shimVars == <<elements, head, tail, results, posted, calls, completed,
              exhausted, reused>>

adapterVars == <<edge, thread, engine, obs>>

windowVars == <<sizes, mmi, sizeObs>>

dispatchVars == <<callbacks, inbound>>

navVars == <<nav>>

vars == <<shimVars, adapterVars, windowVars, dispatchVars, navVars>>

(***************************************************************************)
(* Bounds.                                                                 *)
(***************************************************************************)
\* WebView.MAX_RESULTS is 100000 in the shim (edge.cpp:343); the model keeps
\* the pool small so that TLC can exhaust it.
MAX_RESULTS == 3
\* How many invoke calls the page makes.
MaxCalls == 5
\* How many __free_result calls are made.
MaxFrees == 3

\* How many native messages the system and the engine post to the UI thread.
MaxMsgs == 3
\* How many work items host threads enqueue.
MaxWork == 2

\* How many setter calls and resize notifications the window takes.
MaxSizeOps == 3
\* How many web messages the page sends.
MaxInbound == 2

\* JavaScript's undefined, as Queue.dequeue returns it for a missing key.
Undefined == -1

Index == 0 .. (MAX_RESULTS - 1)

(***************************************************************************)
(* class Queue (edge.cpp:292-322).  A queue value is the record            *)
(* [elements, head, tail].                                                 *)
(***************************************************************************)
QueueNew == [elements |-> <<>>, head |-> 0, tail |-> 0]

\* enqueue(element): elements[tail] = element; tail++
enqueue(q, element) ==
    [elements |-> [k \in (DOMAIN q.elements) \cup {q.tail} |->
                      IF k = q.tail THEN element ELSE q.elements[k]],
     head |-> q.head,
     tail |-> q.tail + 1]

\* dequeue(): item = elements[head]; delete elements[head]; head++; return item
\* Nothing tests for an empty queue: a missing key reads as undefined and the
\* head still advances.
dequeue(q) ==
    [item  |-> IF q.head \in DOMAIN q.elements THEN q.elements[q.head]
               ELSE Undefined,
     queue |-> [elements |-> [k \in (DOMAIN q.elements) \ {q.head} |->
                                 q.elements[k]],
                head |-> q.head + 1,
                tail |-> q.tail]]

\* length(): tail - head
length(q) == q.tail - q.head

(***************************************************************************)
(* class IndexAllocator (edge.cpp:324-340).                                *)
(***************************************************************************)
RECURSIVE Seeded(_, _)
\* constructor(count): for (i = 0; i < count; i++) queue.enqueue(i)
Seeded(q, i) ==
    IF i < MAX_RESULTS THEN Seeded(enqueue(q, i), i + 1) ELSE q

IndexAllocatorNew == Seeded(QueueNew, 0)

allocate(q) == dequeue(q)

deallocate(q, element) == enqueue(q, element)

(***************************************************************************)
(* class WebView (edge.cpp:342-378).                                       *)
(***************************************************************************)
TheQueue == [elements |-> elements, head |-> head, tail |-> tail]

\* The free list, oldest first: what the next invokes will be handed.
FreeList ==
    [p \in 1 .. (IF tail > head THEN tail - head ELSE 0) |->
        IF (head + p - 1) \in DOMAIN elements THEN elements[head + p - 1]
        ELSE Undefined]

InFlightIds == (1 .. Len(calls)) \ completed
InFlightAt(i) == {c \in InFlightIds : calls[c] = i}
InFlightIndices == {calls[c] : c \in InFlightIds}

\* JSON.stringify leaves out a member whose value is undefined.
Stringify(index) ==
    IF index = Undefined THEN [hasIndex |-> FALSE, index |-> 0]
    ELSE [hasIndex |-> TRUE, index |-> index]

\* invoke(name, ...args)
Invoke ==
    /\ Len(calls) < MaxCalls
    /\ LET r == allocate(TheQueue)
           index == r.item
           id == Len(calls) + 1
       IN  /\ elements' = r.queue.elements
           /\ head' = r.queue.head
           /\ tail' = r.queue.tail
           /\ results' = [k \in (DOMAIN results) \cup {index} |->
                             IF k = index THEN id ELSE results[k]]
           /\ posted' = Append(posted, Stringify(index))
           /\ calls' = Append(calls, index)
           /\ exhausted' = (exhausted \/ length(TheQueue) <= 0)
           /\ reused' = (reused \/ index \in InFlightIndices)
    /\ UNCHANGED <<completed, adapterVars, windowVars, dispatchVars, navVars>>

\* How many __free_result calls there have been: every one enqueues once, and
\* nothing else does after the constructor.
FreeCount == tail - MAX_RESULTS

\* The values __free_result is called with: the indices, a number outside the
\* pool, and undefined.
FreeArguments == Index \cup {MAX_RESULTS, Undefined}

\* __free_result(index): allocator.deallocate(index), whatever the index.  It
\* completes the oldest call in flight that holds the index, if there is one.
FreeResult(index) ==
    /\ FreeCount < MaxFrees
    /\ LET q == deallocate(TheQueue, index)
       IN  /\ elements' = q.elements
           /\ head' = q.head
           /\ tail' = q.tail
    /\ completed' =
          IF InFlightAt(index) # {}
          THEN completed \cup {CHOOSE c \in InFlightAt(index) :
                                  \A d \in InFlightAt(index) : c <= d}
          ELSE completed
    /\ UNCHANGED <<results, posted, calls, exhausted, reused, adapterVars,
                   windowVars, dispatchVars, navVars>>

InitShim ==
    /\ elements = IndexAllocatorNew.elements
    /\ head = IndexAllocatorNew.head
    /\ tail = IndexAllocatorNew.tail
    /\ results = <<>>
    /\ posted = <<>>
    /\ calls = <<>>
    /\ completed = {}
    /\ exhausted = FALSE
    /\ reused = FALSE

NextShim ==
    \/ Invoke
    \/ \E index \in FreeArguments : FreeResult(index)

(***************************************************************************)
(* Properties of the shim.                                                 *)
(***************************************************************************)
Occurrences(i) == Cardinality({p \in DOMAIN FreeList : FreeList[p] = i})

\* The __free_result calls that named an index no call in flight held: every
\* other one completed a call.
StrayFrees == FreeCount - Cardinality(completed)

\* C1. Correlation uniqueness: as long as no invoke has found the free list
\* empty, no two calls in flight hold the same correlation index; and, when
\* every __free_result so far completed a call in flight, every index is
\* either held by exactly one call in flight or present exactly once in the
\* free list (a completed call returned it once, not twice, not never).
C1_CorrelationUniqueness ==
    (~exhausted) =>
        /\ \A c, d \in InFlightIds : (c # d) => (calls[c] # calls[d])
        /\ (StrayFrees = 0) =>
              \A i \in Index : Occurrences(i) + Cardinality(InFlightAt(i)) = 1

\* C2. Index reclamation: for every sequence of invoke and settle operations,
\* an index freed by settlement is back in the FIFO free list, where a later
\* invoke will be handed it, and no invoke is handed an index whose previous
\* call is still unsettled.
C2_IndexReclamation ==
    /\ ~reused
    /\ \A i \in Index : (InFlightAt(i) = {}) => (Occurrences(i) >= 1)

\* The indices a completed call held that no call in flight holds now.
CompletedIndices == {calls[c] : c \in completed} \ InFlightIndices

\* C12. Completion order: the completion operation for an index locates the
\* pending pair, settles it, removes it from the pending mapping and only then
\* returns the index to the free list: after a completion the mapping holds
\* no entry for the index, and no index is in the free list while the
\* mapping still holds its pair.
C12_CompletionRemovesPending ==
    /\ \A i \in CompletedIndices : i \notin DOMAIN results
    /\ \A p \in DOMAIN FreeList : FreeList[p] \notin DOMAIN results

\* The invokes that were handed an index.
IndexedCalls == {k \in 1 .. Len(calls) : calls[k] # Undefined}

\* C17. Pool exhaustion: an invoke that finds the free list empty fails: it
\* registers no pending pair, sends no message to the host and leaves the
\* allocator intact, so that an index freed later is handed to the next
\* invoke.  Stated for the runs in which every __free_result completed a
\* call in flight, where only an empty free list makes allocate return
\* undefined.
C17_ExhaustionFails ==
    (StrayFrees = 0) =>
        /\ Undefined \notin DOMAIN results
        /\ Len(posted) = Cardinality(IndexedCalls)
        /\ \A p \in DOMAIN posted : posted[p].hasIndex
        /\ head <= tail

FreeSet == {FreeList[p] : p \in DOMAIN FreeList}

\* C18. Index conservation: in every reachable state the free list holds no
\* index twice and only indices of [0, MAX_RESULTS), it is disjoint from the
\* indices in flight, the two together are the whole domain, and
\* Queue.length() is MAX_RESULTS minus the number of calls in flight, never
\* negative.
C18_IndexConservation ==
    /\ FreeSet \subseteq Index
    /\ Cardinality(FreeSet) = Len(FreeList)
    /\ FreeSet \cap InFlightIndices = {}
    /\ FreeSet \cup InFlightIndices = Index
    /\ length(TheQueue) = MAX_RESULTS - Cardinality(InFlightIds)
    /\ length(TheQueue) >= 0

(***************************************************************************)
(* Edge::webviewMessageReceived (edge.cpp:104-141).                        *)
(*                                                                         *)
(* An inbound web message is described by what the handler looks at:       *)
(*   isString  the page posted a string (TryGetWebMessageAsString works)   *)
(*   syntax    "valid": the text is well-formed JSON;                      *)
(*             "invalid_early": the lazy parser reports the error, at the  *)
(*             latest when it looks up "index";                            *)
(*             "invalid_late": the lazy parser walks past the error, and   *)
(*             only the full parse of line 128 reports it                  *)
(*   members   the "index" and "func" members of the object, in the order  *)
(*             they are written; a name can be written more than once, and *)
(*             with an escape sequence in it ("in\u0064ex" names index)    *)
(*   hasArgs   whether the object has an "args" member                     *)
(***************************************************************************)
Names == {"f", "g"}
\* JSON values: the unsigned integer n, the number n + 1/2, the string s.
Uint(n) == [kind |-> "uint", val |-> n, name |-> ""]
Fraction(n) == [kind |-> "fraction", val |-> n, name |-> ""]
Str(s) == [kind |-> "string", val |-> 0, name |-> s]

\* A member: its name, whether the name is written with an escape sequence,
\* and its value.
Member(key, escaped, value) ==
    [key |-> key, escaped |-> escaped, value |-> value]
PlainMembers ==
    {Member("index", FALSE, v) : v \in {Uint(1), Fraction(2), Str("x")}}
        \cup {Member("func", FALSE, v) : v \in {Str("f"), Str("g"), Uint(7)}}
EscapedMembers ==
    {Member("index", TRUE, Uint(3))}
        \cup {Member("func", TRUE, v) : v \in {Str("g"), Uint(7)}}
AnyMember == PlainMembers \cup EscapedMembers

\* The objects the page writes: up to three members, "args" included; of
\* three members only the last is written with an escape.
Single == {<<a>> : a \in AnyMember}
Pairs == {<<a, b>> : a \in AnyMember, b \in AnyMember}
Triples ==
    {t \in {<<a, b, c>> : a \in PlainMembers, b \in PlainMembers,
                          c \in AnyMember} :
        {t[1].key, t[2].key, t[3].key} = {"index", "func"}}
Once ==
    {<<>>} \cup {<<a>> : a \in PlainMembers}
           \cup {p \in {<<a, b>> : a \in PlainMembers, b \in PlainMembers} :
                    p[1].key # p[2].key}

\* The messages the page sends.  A message that is no string gives the
\* handler no text; the ill-formed texts name each member once, plainly.
NotAString ==
    [isString |-> FALSE, syntax |-> "valid", members |-> <<>>, hasArgs |-> FALSE]
Messages ==
    {NotAString}
        \cup [isString : {TRUE}, syntax : {"valid"},
              members : Once, hasArgs : BOOLEAN]
        \cup [isString : {TRUE}, syntax : {"valid"},
              members : Single \cup Pairs \cup Triples, hasArgs : {FALSE}]
        \cup [isString : {TRUE}, syntax : {"invalid_early", "invalid_late"},
              members : Once, hasArgs : {FALSE}]

Least(S) == CHOOSE i \in S : \A j \in S : i <= j
Greatest(S) == CHOOSE i \in S : \A j \in S : i >= j

\* 115, 122: document[key] of the lazy parser.  The lookup starts behind the
\* member the previous lookup stopped at (from; 0 at the start of the
\* object), runs to the end of the object and goes on from its start up to
\* where it began.  The key is compared with the name as it is written, so a
\* name written with an escape is not found.  The result is the position of
\* the member, 0 without one.
Written(member, key) == member.key = key /\ ~member.escaped
find_field_unordered(members, key, from) ==
    LET behind == {i \in (from + 1)..Len(members) : Written(members[i], key)}
        before == {i \in 1..from : Written(members[i], key)}
    IN  IF behind # {} THEN Least(behind)
        ELSE IF before # {} THEN Least(before)
        ELSE 0

\* 129, 130: message_data[key] of the full parse: the names are unescaped, and
\* of the members written under one name the object keeps the last.
LastMember(members, key) ==
    LET all == {i \in 1..Len(members) : members[i].key = key}
    IN  IF all # {} THEN Greatest(all) ELSE 0

\* 115: get_uint64() succeeds on an unsigned integer only.
\* 122: get_string() succeeds on a string only.
get_uint64_ok(v) == v.kind = "uint"
get_string_ok(v) == v.kind = "string"
\* 129: get<uint64_t>() converts a number (n + 1/2 to n) and throws on any
\*      other value.
\* 130: get<std::string>() throws on a value that is no string.
get_uint64_t_throws(v) == v.kind \notin {"uint", "fraction"}
get_std_string_throws(v) == v.kind # "string"

\* 131: message_data["args"].dump(): the member's text, or null without one.
ArgsData(m) == IF m.hasArgs THEN "args" ELSE "null"

NoCall == <<>>
Call(name, index, args) == <<[name |-> name, index |-> index, args |-> args]>>

Returned(result, called, allocated, freed) ==
    [result |-> result, calls |-> called, allocated |-> allocated,
     freed |-> freed]

\* 106-107: the message is read as a string; throwIfFailed throws when it is
\*          not one.
\* 111-126: the lazy parser looks up "index" and reads it as uint64, then
\*          looks up "func" from there and reads it as a string; on an error
\*          the handler returns S_OK at once.
\* 128-131: the text is parsed again, in full; a syntax error throws.  index
\*          and func are read again, from the members the full parse kept.
\* 133-137: the callback registered under the name, if any, is called with
\*          the index and the serialized args.
\* 139-140: the buffer is freed and S_OK returned.
webviewMessageReceived(m, registry) ==
    IF ~m.isString
    THEN Returned("threw", NoCall, FALSE, FALSE)
    ELSE
      LET i == find_field_unordered(m.members, "index", 0)
          f == find_field_unordered(m.members, "func", i)
      IN
        IF \/ m.syntax = "invalid_early"
           \/ i = 0
           \/ ~get_uint64_ok(m.members[i].value)
        THEN Returned("S_OK", NoCall, TRUE, FALSE)
        ELSE IF f = 0 \/ ~get_string_ok(m.members[f].value)
        THEN Returned("S_OK", NoCall, TRUE, FALSE)
        ELSE IF m.syntax = "invalid_late"
        THEN Returned("threw", NoCall, TRUE, FALSE)
        ELSE
          LET index == m.members[LastMember(m.members, "index")].value
              func_name == m.members[LastMember(m.members, "func")].value
          IN  IF get_uint64_t_throws(index) \/ get_std_string_throws(func_name)
              THEN Returned("threw", NoCall, TRUE, FALSE)
              ELSE Returned("S_OK",
                            IF func_name.name \in registry
                            THEN Call(func_name.name, index.val, ArgsData(m))
                            ELSE NoCall,
                            TRUE, TRUE)

\* What the handler can return to the engine, over all messages and
\* registries.
HandlerResults ==
    {webviewMessageReceived(m, registry).result :
        m \in Messages, registry \in SUBSET Names}

\* The host registers a callback under a name.
Bind(name) ==
    /\ name \notin callbacks
    /\ callbacks' = callbacks \cup {name}
    /\ UNCHANGED <<inbound, shimVars, adapterVars, windowVars, navVars>>

\* The engine raises WebMessageReceived with a message from the page.
MessageReceived(m) ==
    /\ inbound.count < MaxInbound
    /\ LET r == webviewMessageReceived(m, callbacks)
       IN  inbound' = [count |-> inbound.count + 1,
                       last |-> m,
                       result |-> r.result,
                       calls |-> r.calls,
                       registryBefore |-> callbacks,
                       unreleased |-> inbound.unreleased +
                           (IF r.allocated /\ ~r.freed THEN 1 ELSE 0)]
    /\ UNCHANGED <<callbacks, shimVars, adapterVars, windowVars, navVars>>

InitDispatch ==
    /\ callbacks = {}
    /\ inbound = [count |-> 0,
                  last |-> [isString |-> TRUE, syntax |-> "valid",
                            members |-> <<>>, hasArgs |-> FALSE],
                  result |-> "S_OK", calls |-> NoCall,
                  registryBefore |-> {}, unreleased |-> 0]

NextDispatch ==
    \/ \E name \in Names : Bind(name)
    \/ \E m \in Messages : MessageReceived(m)

(***************************************************************************)
(* The engine adapter.  Operators take and return a world: the record of   *)
(* the four adapter variables.                                             *)
(***************************************************************************)
World == [edge |-> edge, thread |-> thread, engine |-> engine, obs |-> obs]

Becomes(w) ==
    /\ edge' = w.edge
    /\ thread' = w.thread
    /\ engine' = w.engine
    /\ obs' = w.obs
    /\ UNCHANGED <<shimVars, windowVars, dispatchVars, navVars>>

\* Where the UI thread can be while Edge::run's loop is Running.
Running == {"peek", "drain", "idle"}
\* Where nothing more happens: the constructor or run threw, the process
\* died, or run returned.
Terminal == {"threw", "crashed", "run_threw", "returned"}

Crash(w) == [w EXCEPT !.thread.pc = "crashed"]
Goto(w, next) ==
    IF w.thread.pc = "crashed" THEN w ELSE [w EXCEPT !.thread.pc = next]

\* A call through a null com_ptr is undefined behaviour: the process dies on
\* the access violation, or the build carries on as if the call had not been
\* made.
NullDeref(w) == {Crash(w), w}

\* ::PostQuitMessage(0) on the UI thread: the quit message is delivered once
\* the thread's queue holds no other posted message.
PostQuitMessage(w) ==
    [w EXCEPT !.thread.quitFlag = TRUE,
              !.obs.quitRequested = @ \/ (w.thread.pc \in Running)]

(***************************************************************************)
(* Edge::windowProcedure (edge.cpp:41-82): what it does for a message,     *)
(* given whether the window carries an instance and whether the instance   *)
(* has a controller.  WM_GETMINMAXINFO is modelled with the sizes below.   *)
(***************************************************************************)
\* A window procedure that resizes the controller without testing for one.
windowProcedureNoTest(inst, ctl, msg) ==
    IF ~inst THEN [quit |-> FALSE, putBounds |-> FALSE, def |-> TRUE]
    ELSE IF msg = "WM_DESTROY"
         THEN [quit |-> TRUE, putBounds |-> FALSE, def |-> TRUE]
    ELSE IF msg = "WM_SIZE"
         THEN [quit |-> FALSE, putBounds |-> TRUE, def |-> TRUE]
    ELSE [quit |-> FALSE, putBounds |-> FALSE, def |-> TRUE]

windowProcedure(inst, ctl, msg) ==
    IF ~inst THEN [quit |-> FALSE, putBounds |-> FALSE, def |-> TRUE]
    ELSE IF msg = "WM_DESTROY"
         THEN [quit |-> TRUE, putBounds |-> FALSE, def |-> TRUE]
    ELSE IF msg = "WM_SIZE"
         THEN IF ctl = "null"
              THEN [quit |-> FALSE, putBounds |-> FALSE, def |-> FALSE]
              ELSE [quit |-> FALSE, putBounds |-> TRUE, def |-> TRUE]
    ELSE [quit |-> FALSE, putBounds |-> FALSE, def |-> TRUE]

\* The window procedure applied to the world.  64: put_Bounds can fail; its
\* HRESULT is dropped, the bounds stay as they were and the procedure goes on
\* to DefWindowProc.
WndProc(w, msg) ==
    LET r == windowProcedure(w.edge.userData, w.edge.controller, msg)
        w1 == IF r.quit THEN PostQuitMessage(w) ELSE w
        w2 == [w1 EXCEPT !.obs.defProc = @ \/ r.def,
                         !.obs.sizeNoop = @ \/ (msg = "WM_SIZE" /\ ~r.def)]
        asked == [w2 EXCEPT !.obs.putCalls = @ + 1,
                            !.obs.nullUse = @ \/ (w.edge.controller = "null")]
    IN  IF r.putBounds
        THEN {[asked EXCEPT !.edge.bounds = TRUE], asked}
        ELSE {w2}

(***************************************************************************)
(* Edge::webviewNavigationComplete (edge.cpp:84-102).                      *)
(***************************************************************************)
\* A handler that shows the window on every navigation.
webviewNavigationCompleteNoFlag(w) ==
    LET shown == [w EXCEPT !.edge.isInitialized = TRUE,
                           !.obs.showCount = @ + 1,
                           !.obs.navEvents = @ + 1]
    IN  {[shown EXCEPT !.edge.visible = TRUE, !.edge.bounds = TRUE]}

\* The first event sets the flag and shows, updates and focuses the window;
\* put_IsVisible and put_Bounds can fail, and throwIfFailed then throws out of
\* the engine's callback: the process dies, or the engine swallows it.
webviewNavigationComplete(w) ==
    IF ~w.edge.isInitialized
    THEN LET shown == [w EXCEPT !.edge.isInitialized = TRUE,
                                !.obs.showCount = @ + 1,
                                !.obs.navEvents = @ + 1]
         IN  {[shown EXCEPT !.edge.visible = TRUE, !.edge.bounds = TRUE],
              Crash(shown), shown,
              Crash([shown EXCEPT !.edge.visible = TRUE]),
              [shown EXCEPT !.edge.visible = TRUE]}
    ELSE {[w EXCEPT !.obs.navEvents = @ + 1]}

(***************************************************************************)
(* The completion callbacks of Edge::Edge (edge.cpp:205-210, 223-228).     *)
(* Neither looks at error_code: on an error the created object is null,    *)
(* attach stores null and AddRef is called through it.                     *)
(***************************************************************************)
EnvironmentCompleted(w, ok) ==
    IF ok
    THEN {[w EXCEPT !.edge.environment = "set",
                    !.edge.semaphore = @ + 1,
                    !.engine.envOp = "done",
                    !.obs.envRuns = @ + 1]}
    ELSE LET n == [w EXCEPT !.edge.environment = "null",
                            !.engine.envOp = "done",
                            !.obs.envRuns = @ + 1,
                            !.obs.asyncError = "env"]
         IN  {Crash(n), [n EXCEPT !.edge.semaphore = @ + 1]}

ControllerCompleted(w, ok) ==
    IF ok
    THEN {[w EXCEPT !.edge.controller = "set",
                    !.edge.semaphore = @ + 1,
                    !.engine.ctlOp = "done",
                    !.obs.ctlRuns = @ + 1]}
    ELSE LET n == [w EXCEPT !.edge.controller = "null",
                            !.engine.ctlOp = "done",
                            !.obs.ctlRuns = @ + 1,
                            !.obs.asyncError = "ctl"]
         IN  {Crash(n), [n EXCEPT !.edge.semaphore = @ + 1]}

\* Edge::webviewMessageReceived as the engine's callback: when it returns
\* S_OK a registered host callback may have called Edge::quit; when it throws,
\* the exception leaves through the engine's callback: the process dies, or
\* the engine swallows it.
webMessageReceived(w) ==
    UNION {IF r = "S_OK" THEN {w, PostQuitMessage(w)} ELSE {Crash(w), w} :
              r \in HandlerResults}

(***************************************************************************)
(* ::DispatchMessage: the window procedure for the window's own messages,  *)
(* the engine's callbacks for the messages the engine posted to itself.    *)
(* A registered host callback (a web message) may call Edge::quit.         *)
(***************************************************************************)
DispatchMessage(w, m) ==
    CASE m \in {"WM_SIZE", "WM_DESTROY"} -> WndProc(w, m)
      [] m = "THREAD" -> {w}
      [] m = "NAV" -> webviewNavigationComplete(w)
      [] m = "WEBMSG" -> webMessageReceived(w)
      [] m = "env_ok" -> EnvironmentCompleted(w, TRUE)
      [] m = "env_err" -> EnvironmentCompleted(w, FALSE)
      [] m = "ctl_ok" -> ControllerCompleted(w, TRUE)
      [] m = "ctl_err" -> ControllerCompleted(w, FALSE)

\* The world with the head of the native queue taken off.
Popped(w) == [w EXCEPT !.thread.nativeQ = Tail(@)]

(***************************************************************************)
(* Edge::Edge (edge.cpp:143-250), step by step.                            *)
(***************************************************************************)
Throw(w, step) == [w EXCEPT !.thread.pc = "threw", !.obs.failedStep = step]

\* 147-158: COM, DPI awareness, window class.
CtorInit ==
    /\ thread.pc = "ctor_init"
    /\ \E ok \in BOOLEAN :
          Becomes(IF ok THEN Goto(World, "ctor_window")
                  ELSE Throw(World, "init"))

\* 160-174: CreateWindowEx.  The window is created hidden.
CtorWindow ==
    /\ thread.pc = "ctor_window"
    /\ \E ok \in BOOLEAN :
          Becomes(IF ok THEN Goto([World EXCEPT !.edge.window = TRUE], "ctor_scale")
                  ELSE Throw(World, "window"))

\* 176-180: the monitor's scale factor, then SetWindowPos, which sends WM_SIZE
\* to the window procedure before the instance is stored on the window.
CtorScale ==
    /\ thread.pc = "ctor_scale"
    /\ \E ok \in BOOLEAN :
          IF ok
          THEN \E w \in WndProc(World, "WM_SIZE") : Becomes(Goto(w, "ctor_assoc"))
          ELSE Becomes(Throw(World, "scale"))

\* 182-195: the instance is stored on the window; dark mode; runtime version.
CtorAssoc ==
    /\ thread.pc = "ctor_assoc"
    /\ \E ok \in BOOLEAN :
          LET w == [World EXCEPT !.edge.userData = TRUE]
          IN  Becomes(IF ok THEN Goto(w, "ctor_env") ELSE Throw(w, "runtime"))

\* 197: std::getenv("APPDATA") is passed to the path constructor untested.
\* Without the variable the pointer is null and the constructor reads through
\* it.
\* 199-211: the environment is requested.
CtorEnvironment ==
    /\ thread.pc = "ctor_env"
    /\ \E appData \in BOOLEAN, ok \in BOOLEAN :
          \E w \in (IF appData THEN {World} ELSE NullDeref(World)) :
             Becomes(IF w.thread.pc = "crashed" THEN w
                     ELSE IF ok
                     THEN Goto([w EXCEPT !.engine.envOp = "pending"],
                               "wait1_try")
                     ELSE Throw(w, "environment"))

\* 215, 231: while (!semaphore.try_acquire() && ...
WaitTry(here, get, next) ==
    /\ thread.pc = here
    /\ Becomes(IF edge.semaphore > 0
               THEN Goto([World EXCEPT !.edge.semaphore = @ - 1], next)
               ELSE Goto(World, get))

\* ... ::GetMessage(&msg, nullptr, 0, 0)): blocks while the queue is empty,
\* returns 0 on the quit message, which ends the loop.
WaitGetDispatch(here, try) ==
    /\ thread.pc = here
    /\ thread.nativeQ # <<>>
    /\ \E w \in DispatchMessage(Popped(World), Head(thread.nativeQ)) :
          Becomes(Goto(w, try))

WaitGetQuit(here, next) ==
    /\ thread.pc = here
    /\ thread.nativeQ = <<>>
    /\ thread.quitFlag
    /\ Becomes(Goto([World EXCEPT !.thread.quitFlag = FALSE], next))

\* 221-229: the controller is requested from the environment.
CtorController ==
    /\ thread.pc = "ctor_ctl"
    /\ IF edge.environment = "null"
       THEN \E w \in NullDeref(World) : Becomes(Goto(w, "wait2_try"))
       ELSE \E ok \in BOOLEAN :
               Becomes(IF ok THEN Goto([World EXCEPT !.engine.ctlOp = "pending"],
                                       "wait2_try")
                       ELSE Throw(World, "controller"))

\* 237-249: the page handle, the two subscriptions, the settings.
CtorSubscribe ==
    /\ thread.pc = "ctor_subscribe"
    /\ IF edge.controller = "null"
       THEN \E w \in NullDeref([World EXCEPT !.obs.nullUse = TRUE]) :
               Becomes(Goto(w, "ready"))
       ELSE \E ok \in BOOLEAN :
               Becomes(IF ok THEN Goto([World EXCEPT !.edge.webview = TRUE,
                                                     !.engine.subscribed = TRUE],
                                       "ready")
                       ELSE Throw(World, "subscribe"))

(***************************************************************************)
(* The engine runtime and the system, as the adapter's environment.        *)
(***************************************************************************)
\* The engine finishes an asynchronous creation, with or without an error.
\* It runs the completion callback from a message it posted to the UI thread,
\* or right away on a thread of its own.
EngineCompletes ==
    /\ thread.pc \notin Terminal
    /\ \E ok \in BOOLEAN, direct \in BOOLEAN :
          \/ /\ engine.envOp = "pending"
             /\ IF direct
                THEN \E w \in EnvironmentCompleted(World, ok) : Becomes(w)
                ELSE Becomes([World EXCEPT
                        !.engine.envOp = "posted",
                        !.thread.nativeQ =
                            Append(@, IF ok THEN "env_ok" ELSE "env_err")])
          \/ /\ engine.ctlOp = "pending"
             /\ IF direct
                THEN \E w \in ControllerCompleted(World, ok) : Becomes(w)
                ELSE Becomes([World EXCEPT
                        !.engine.ctlOp = "posted",
                        !.thread.nativeQ =
                            Append(@, IF ok THEN "ctl_ok" ELSE "ctl_err")])

\* The system posts a window message, or the engine an event: a resize, the
\* window's destruction (once), a thread message, and, once the page is being
\* loaded, navigation-completed events and web messages.
PostNative(m) ==
    /\ thread.pc \notin Terminal
    /\ edge.window
    /\ obs.posts < MaxMsgs
    /\ (m = "WM_DESTROY") => ~obs.destroyed
    /\ (m \in {"NAV", "WEBMSG"}) => (engine.navigated /\ engine.subscribed)
    /\ Becomes([World EXCEPT !.thread.nativeQ = Append(@, m),
                             !.obs.posts = @ + 1,
                             !.obs.destroyed = @ \/ (m = "WM_DESTROY")])

(***************************************************************************)
(* Edge::run (edge.cpp:289-436).                                           *)
(***************************************************************************)
\* 383-397: the shim is registered, the page is navigated to, the loop begins.
RunStart ==
    /\ thread.pc = "ready"
    /\ IF ~edge.webview
       THEN \E w \in NullDeref([World EXCEPT !.obs.nullUse = TRUE]) :
               Becomes(Goto(w, "peek"))
       ELSE \E ok \in BOOLEAN :
               Becomes(IF ok THEN Goto([World EXCEPT !.engine.navigated = TRUE],
                                       "peek")
                       ELSE Goto(World, "run_threw"))

\* A new iteration of while (running) begins: what the last one saw is
\* forgotten.
NewIteration(w, peeked) ==
    [w EXCEPT !.obs.iterPeeked = peeked,
              !.obs.iterDrained = FALSE,
              !.obs.iterRan = 0,
              !.obs.iterIdle = 0]

\* 401-417: PeekMessage found a message other than WM_QUIT; it is dispatched
\* when it belongs to a window.
LoopDispatch ==
    /\ thread.pc = "peek"
    /\ thread.nativeQ # <<>>
    /\ LET m == Head(thread.nativeQ)
           w0 == NewIteration(Popped(World), "msg")
       IN  \E w \in (IF m = "THREAD" THEN {w0} ELSE DispatchMessage(w0, m)) :
              Becomes(Goto(w, "peek"))

\* Where the loop goes on WM_QUIT, were it to keep running.
AfterQuitKeepsRunning == "peek"

\* 405-408, 399, 435: running = false ends while (running); Close is next.
AfterQuit == "close"

\* 405-408: PeekMessage found WM_QUIT: running = false.
LoopQuit ==
    /\ thread.pc = "peek"
    /\ thread.nativeQ = <<>>
    /\ thread.quitFlag
    /\ Becomes(Goto([NewIteration(World, "quit") EXCEPT
                        !.thread.quitFlag = FALSE,
                        !.obs.quitConsumed = TRUE],
                    AfterQuit))

\* Where the loop goes when PeekMessage found nothing, were it to skip the
\* work queue.
AfterPeekNoneSkipsDrain == "idle"

\* 419-426: PeekMessage found nothing: the work queue comes first.
AfterPeekNone == "drain"

LoopNoMessage ==
    /\ thread.pc = "peek"
    /\ thread.nativeQ = <<>>
    /\ ~thread.quitFlag
    /\ Becomes(Goto(NewIteration(World, "none"), AfterPeekNone))

\* A pop that takes the newest item.
popBack(q) == [item |-> q[Len(q)], rest |-> SubSeq(q, 1, Len(q) - 1)]

\* 423: main_queue.pop_front()
popFront(q) == [item |-> Head(q), rest |-> Tail(q)]

\* 421-426: while (!main_queue.empty()): one item is popped and run, and its
\* resource deleted.  A work item may call Edge::quit.
LoopDrainItem ==
    /\ thread.pc = "drain"
    /\ edge.main_queue # <<>>
    /\ LET r == popFront(edge.main_queue)
           w0 == [World EXCEPT !.edge.main_queue = r.rest,
                               !.obs.executed = Append(@, r.item.id),
                               !.obs.iterRan = @ + 1,
                               !.obs.execAfterIdle = @ \/ (obs.iterIdle > 0)]
       IN  Becomes(IF r.item.quits THEN PostQuitMessage(w0) ELSE w0)

\* 421: main_queue.empty() holds: the loop falls through to the idle test.
LoopDrained ==
    /\ thread.pc = "drain"
    /\ edge.main_queue = <<>>
    /\ Becomes(Goto([World EXCEPT !.obs.iterDrained = (edge.main_queue = <<>>)],
                    "idle"))

\* 428-431: if (idle.first) idle.first().  The host's callback may call
\* Edge::quit.
LoopIdle ==
    /\ thread.pc = "idle"
    /\ IF edge.idle
       THEN \E quits \in BOOLEAN :
               LET w == [World EXCEPT !.obs.iterIdle = @ + 1]
               IN  Becomes(Goto(IF quits THEN PostQuitMessage(w) ELSE w, "peek"))
       ELSE Becomes(Goto(World, "peek"))

\* 435: controller->Close()
RunClose ==
    /\ thread.pc = "close"
    /\ IF edge.controller = "null"
       THEN \E w \in NullDeref([World EXCEPT !.obs.nullUse = TRUE]) :
               Becomes(Goto(w, "returned"))
       ELSE \E ok \in BOOLEAN :
               Becomes(IF ok THEN Goto([World EXCEPT !.edge.controller = "closed",
                                                     !.obs.closeCount = @ + 1],
                                       "returned")
                       ELSE Goto(World, "run_threw"))

(***************************************************************************)
(* Host threads.                                                           *)
(***************************************************************************)
\* A host thread appends a work item to main_queue.
EnqueueWork ==
    /\ thread.pc \in {"ready"} \cup Running
    /\ obs.enqueued < MaxWork
    /\ \E quits \in BOOLEAN :
          Becomes([World EXCEPT
              !.edge.main_queue =
                  Append(@, [id |-> obs.enqueued + 1, quits |-> quits]),
              !.obs.enqueued = @ + 1])

\* 443-446: Edge::quit called on a thread other than the UI thread while the
\* loop is Running.  ::PostQuitMessage asks the calling thread to quit: the
\* quit message goes to that thread's queue, not to the UI thread's.
QuitFromHostThread ==
    /\ thread.pc \in Running
    /\ ~obs.quitRequested
    /\ Becomes([World EXCEPT !.engine.hostThreadQuit = TRUE,
                             !.obs.quitRequested = TRUE])

InitAdapter ==
    /\ edge \in [window : {FALSE}, userData : {FALSE}, environment : {"null"},
                 controller : {"null"}, webview : {FALSE}, semaphore : {0},
                 isInitialized : {FALSE}, visible : {FALSE}, bounds : {FALSE},
                 main_queue : {<<>>}, idle : BOOLEAN]
    /\ thread = [pc |-> "ctor_init", nativeQ |-> <<>>, quitFlag |-> FALSE]
    /\ engine = [envOp |-> "none", ctlOp |-> "none", subscribed |-> FALSE,
                 navigated |-> FALSE, hostThreadQuit |-> FALSE]
    /\ obs = [failedStep |-> "none", asyncError |-> "none", showCount |-> 0,
              navEvents |-> 0, posts |-> 0, destroyed |-> FALSE,
              enqueued |-> 0, executed |-> <<>>, iterPeeked |-> "none",
              iterDrained |-> FALSE, iterIdle |-> 0, execAfterIdle |-> FALSE,
              iterRan |-> 0,
              quitRequested |-> FALSE, quitConsumed |-> FALSE,
              closeCount |-> 0, nullUse |-> FALSE, defProc |-> FALSE,
              envRuns |-> 0, ctlRuns |-> 0, sizeNoop |-> FALSE,
              putCalls |-> 0]

\* The steps of the UI thread.
UIThread ==
    \/ CtorInit
    \/ CtorWindow
    \/ CtorScale
    \/ CtorAssoc
    \/ CtorEnvironment
    \/ WaitTry("wait1_try", "wait1_get", "ctor_ctl")
    \/ WaitGetDispatch("wait1_get", "wait1_try")
    \/ WaitGetQuit("wait1_get", "ctor_ctl")
    \/ CtorController
    \/ WaitTry("wait2_try", "wait2_get", "ctor_subscribe")
    \/ WaitGetDispatch("wait2_get", "wait2_try")
    \/ WaitGetQuit("wait2_get", "ctor_subscribe")
    \/ CtorSubscribe
    \/ RunStart
    \/ LoopDispatch
    \/ LoopQuit
    \/ LoopNoMessage
    \/ LoopDrainItem
    \/ LoopDrained
    \/ LoopIdle
    \/ RunClose

\* Everything else: the engine, the system, host threads.
Environment ==
    \/ EngineCompletes
    \/ \E m \in {"WM_SIZE", "WM_DESTROY", "THREAD", "NAV", "WEBMSG"} :
          PostNative(m)
    \/ EnqueueWork
    \/ QuitFromHostThread


(***************************************************************************)
(* Window sizing: set_max_size, set_min_size, set_size (edge.cpp:252-287)  *)
(* and the window procedure's WM_GETMINMAXINFO and WM_SIZE (edge.cpp:56-79)*)
(* The sizes are uint32_t: width * scale wraps at 2^32 before the division.*)
(***************************************************************************)
\* (v * sc mod 2^32) / 100 for 0 <= v < 2^31, computed on 16-bit halves so
\* that no intermediate value leaves the range of the model checker.
ScaleDim(v, sc) ==
    LET lo == v % 65536
        hi == v \div 65536
        plo == lo * sc
        phi == hi * sc + (plo \div 65536)
        prodHi == phi % 65536
        prodLo == plo % 65536
    IN  (prodHi \div 100) * 65536 + ((prodHi % 100) * 65536 + prodLo) \div 100

Size(w, h) == [width |-> w, height |-> h]
ZeroSize == Size(0, 0)

\* 252-275: (0,0) puts WS_MAXIMIZEBOX into the style, any other pair takes it
\* out; then the scaled pair is stored.
set_max_size(s, width, height) ==
    [s EXCEPT !.maximizeBox = (Size(width, height) = ZeroSize),
              !.maxSize = Size(ScaleDim(width, s.scale), ScaleDim(height, s.scale))]

\* 277-281
set_min_size(s, width, height) ==
    [s EXCEPT !.minSize = Size(ScaleDim(width, s.scale), ScaleDim(height, s.scale))]

\* 67-79: WM_GETMINMAXINFO on the MINMAXINFO the system passes in: the min
\* track size is always written, the max track size unless the stored
\* maximum is (0,0).
getMinMaxInfo(s, info) ==
    IF s.maxSize # ZeroSize
    THEN [info EXCEPT !.ptMinTrackSize = s.minSize,
                      !.ptMaxTrackSize = s.maxSize,
                      !.maxWritten = TRUE]
    ELSE [info EXCEPT !.ptMinTrackSize = s.minSize]

\* The MINMAXINFO as the system fills it in before the query: its own
\* minimum and the size of the desktop.
SystemInfo == [ptMinTrackSize |-> Size(136, 39),
               ptMaxTrackSize |-> Size(3860, 2180),
               maxWritten |-> FALSE]

\* A length held between the track sizes; the minimum wins over a smaller
\* maximum.
Track(v, lo, hi) ==
    IF v < lo THEN lo
    ELSE IF v > hi THEN (IF hi < lo THEN lo ELSE hi)
    ELSE v

\* The window is given a new size.  Before the size changes the system asks
\* the window procedure for the track sizes (WM_GETMINMAXINFO, 67-79) and
\* holds the size between them; then the window procedure gets WM_SIZE
\* (56-65) and puts the controller's bounds to the new client rectangle; when
\* put_Bounds fails (its HRESULT is dropped, 64) the bounds stay as they were.
Resize(s, requested, putOk) ==
    LET info == getMinMaxInfo(s, SystemInfo)
        size == Size(Track(requested.width, info.ptMinTrackSize.width,
                           info.ptMaxTrackSize.width),
                     Track(requested.height, info.ptMinTrackSize.height,
                           info.ptMaxTrackSize.height))
    IN  [sizes |-> [s EXCEPT !.size = size,
                             !.controllerBounds = IF putOk THEN size ELSE @],
         mmi |-> info]

\* 283-287: SetWindowPos with the scaled size; the query and WM_SIZE are
\* handled before it returns.
set_size(s, width, height, putOk) ==
    Resize(s, Size(ScaleDim(width, s.scale), ScaleDim(height, s.scale)), putOk)

\* The widths and heights the host passes: none, ordinary ones, and one whose
\* product with a scale of 100 wraps to less than 100.
Dims == {0, 400, 42949673}
\* GetScaleFactorForMonitor: DEVICE_SCALE_FACTOR values.
Scales == {100, 150}
\* The sizes the user drags the window's frame to.
UserSizes == {Size(100, 100), Size(1024, 768)}

SetMaxSize ==
    /\ sizeObs.ops < MaxSizeOps
    /\ \E w \in Dims, h \in Dims :
          /\ sizes' = set_max_size(sizes, w, h)
          /\ sizeObs' = [sizeObs EXCEPT !.ops = @ + 1,
                                        !.maxSet = TRUE,
                                        !.maxArgs = Size(w, h),
                                        !.maxAfterMin = sizeObs.minSet,
                                        !.queriedSinceMax = FALSE]
    /\ UNCHANGED <<mmi, shimVars, adapterVars, dispatchVars, navVars>>

SetMinSize ==
    /\ sizeObs.ops < MaxSizeOps
    /\ \E w \in Dims, h \in Dims :
          /\ sizes' = set_min_size(sizes, w, h)
          /\ sizeObs' = [sizeObs EXCEPT !.ops = @ + 1,
                                        !.minSet = TRUE,
                                        !.minArgs = Size(w, h),
                                        !.maxAfterMin = FALSE,
                                        !.queriedSinceMin = FALSE]
    /\ UNCHANGED <<mmi, shimVars, adapterVars, dispatchVars, navVars>>

SetSize ==
    /\ sizeObs.ops < MaxSizeOps
    /\ \E w \in Dims, h \in Dims, putOk \in BOOLEAN :
          LET r == set_size(sizes, w, h, putOk)
          IN  /\ sizes' = r.sizes
              /\ mmi' = r.mmi
              /\ sizeObs' = [sizeObs EXCEPT !.ops = @ + 1,
                                            !.queriedSinceMax = TRUE,
                                            !.queriedSinceMin = TRUE]
    /\ UNCHANGED <<shimVars, adapterVars, dispatchVars, navVars>>

\* The user resizes the window: the same query and the same WM_SIZE.
SizeNotification ==
    /\ sizeObs.ops < MaxSizeOps
    /\ \E requested \in UserSizes, putOk \in BOOLEAN :
          LET r == Resize(sizes, requested, putOk)
          IN  /\ r.sizes.size # sizes.size
              /\ sizes' = r.sizes
              /\ mmi' = r.mmi
              /\ sizeObs' = [sizeObs EXCEPT !.ops = @ + 1,
                                            !.queriedSinceMax = TRUE,
                                            !.queriedSinceMin = TRUE]
    /\ UNCHANGED <<shimVars, adapterVars, dispatchVars, navVars>>

\* The system asks for the size constraints.
QueryMinMax ==
    /\ mmi' = getMinMaxInfo(sizes, SystemInfo)
    /\ sizeObs' = [sizeObs EXCEPT !.queriedSinceMax = TRUE,
                                  !.queriedSinceMin = TRUE]
    /\ UNCHANGED <<sizes, shimVars, adapterVars, dispatchVars, navVars>>

\* 179-180: width * static_cast<float>(scale) / 100, converted to int.  The
\* float product and quotient are exact below 2^24, where every width of
\* CtorSizes lies.
ScaleFloat(v, sc) == (v * sc) \div 100

\* The width and height the host constructs the window with.
CtorSizes == {Size(800, 600)}

\* 176-180: the constructor sizes the window to the scaled pair.  The window
\* carries no instance yet (182), so the query and WM_SIZE are answered by
\* DefWindowProc: the system's own track sizes hold, and nothing in the
\* constructor puts the bounds of the controller, which is created later
\* (223-228).  The bounds are first put by a WM_SIZE (64) or by the first
\* NavigationCompleted (99); until then they are the empty rectangle.
constructed(sc, requested) ==
    LET size == Size(Track(ScaleFloat(requested.width, sc),
                           SystemInfo.ptMinTrackSize.width,
                           SystemInfo.ptMaxTrackSize.width),
                     Track(ScaleFloat(requested.height, sc),
                           SystemInfo.ptMinTrackSize.height,
                           SystemInfo.ptMaxTrackSize.height))
    IN  [scale |-> sc, minSize |-> ZeroSize, maxSize |-> ZeroSize,
         maximizeBox |-> TRUE, size |-> size, controllerBounds |-> ZeroSize]

\* After construction: WS_MAXIMIZEBOX is in the style (160), no constraint is
\* stored and the window has the scaled size it was constructed with.
InitWindow ==
    /\ sizes \in {constructed(sc, requested) :
                     sc \in Scales, requested \in CtorSizes}
    /\ mmi = SystemInfo
    /\ sizeObs = [ops |-> 0, maxSet |-> FALSE, maxArgs |-> ZeroSize,
                  minSet |-> FALSE, minArgs |-> ZeroSize,
                  maxAfterMin |-> FALSE,
                  queriedSinceMax |-> FALSE, queriedSinceMin |-> FALSE]

NextWindow ==
    \/ SetMaxSize
    \/ SetMinSize
    \/ SetSize
    \/ SizeNotification
    \/ QueryMinMax

(***************************************************************************)
(* Edge::run, lines 383-394: the address run navigates to.                 *)
(*                                                                         *)
(* A narrow string (std::string) is a sequence of bytes and a wide string  *)
(* (std::wstring, std::filesystem::path) a sequence of characters.  An     *)
(* ASCII byte and its character are written alike, "h"; other bytes are    *)
(* written "0xC3" and other characters "U+00E9".  U+FFFD is what a         *)
(* conversion puts for bytes it cannot decode.                             *)
(***************************************************************************)
HttpPrefix == <<"h", "t", "t", "p", ":", "/", "/">>
HttpsPrefix == <<"h", "t", "t", "p", "s", ":", "/", "/">>
FilePrefix == <<"f", "i", "l", "e", ":", "/", "/", "/">>

\* std::string_view::starts_with
starts_with(s, prefix) ==
    /\ Len(s) >= Len(prefix)
    /\ SubSeq(s, 1, Len(prefix)) = prefix

\* The characters outside ASCII that the model's strings hold, and the bytes
\* outside ASCII.
WideChars == {"U+00E9", "U+00C3", "U+00A9", "U+FFFD"}
HighBytes == {"0xC2", "0xC3", "0x83", "0xA9", "0xE9", "0xEF", "0xBF", "0xBD"}

\* The UTF-8 bytes of a character.
Utf8Of(c) ==
    CASE c = "U+00E9" -> <<"0xC3", "0xA9">>
      [] c = "U+00C3" -> <<"0xC3", "0x83">>
      [] c = "U+00A9" -> <<"0xC2", "0xA9">>
      [] c = "U+FFFD" -> <<"0xEF", "0xBF", "0xBD">>
      [] OTHER -> <<c>>

\* The character of a byte in code page 1252, and the byte of a character.
Cp1252Char(b) ==
    CASE b = "0xE9" -> "U+00E9"
      [] b = "0xC3" -> "U+00C3"
      [] b = "0xA9" -> "U+00A9"
      [] OTHER -> b

Cp1252Byte(c) ==
    CASE c = "U+00E9" -> "0xE9"
      [] c = "U+00C3" -> "0xC3"
      [] c = "U+00A9" -> "0xA9"
      [] OTHER -> c

RECURSIVE to_wstring(_)
\* 21-28: MultiByteToWideChar(CP_UTF8, 0, ...): UTF-8 bytes to characters; a
\* byte that begins no valid sequence becomes U+FFFD.
to_wstring(source) ==
    IF source = <<>> THEN <<>>
    ELSE IF \E c \in WideChars : starts_with(source, Utf8Of(c))
    THEN LET c == CHOOSE c \in WideChars : starts_with(source, Utf8Of(c))
         IN  <<c>> \o to_wstring(SubSeq(source, Len(Utf8Of(c)) + 1, Len(source)))
    ELSE IF Head(source) \in HighBytes
    THEN <<"U+FFFD">> \o to_wstring(Tail(source))
    ELSE <<Head(source)>> \o to_wstring(Tail(source))

RECURSIVE to_string(_)
\* 30-38: WideCharToMultiByte(CP_UTF8, 0, ...): characters to UTF-8 bytes.
to_string(source) ==
    IF source = <<>> THEN <<>>
    ELSE Utf8Of(Head(source)) \o to_string(Tail(source))

\* 392: the path made from url_path: the bytes are read in the process's
\* code page.
pathOf(source, acp) ==
    IF acp = "utf8" THEN to_wstring(source)
    ELSE [k \in 1 .. Len(source) |-> Cp1252Char(source[k])]

\* std::filesystem::path on Windows.  A path is its text; the operators below
\* work on the text as the library does.
Letters == {"a", "b", "c", "d", "e", "f", "g", "h", "i", "j", "k", "l", "m",
            "n", "o", "p", "q", "r", "s", "t", "u", "v", "w", "x", "y", "z",
            "A", "B", "C", "D", "E", "F", "G", "H", "I", "J", "K", "L", "M",
            "N", "O", "P", "Q", "R", "S", "T", "U", "V", "W", "X", "Y", "Z"}
is_slash(c) == c \in {"/", "\\"}

\* A drive: a letter and a colon.
has_drive_letter_prefix(p) ==
    /\ Len(p) >= 2
    /\ p[1] \in Letters
    /\ p[2] = ":"

\* The length of the root name: 2 for a drive ("C:"), 3 for a device prefix
\* ("\\?", "\\.", "\??" before a separator), the server's name for a share
\* ("\\server"), 0 without a root name.
root_name_end(p) ==
    IF Len(p) < 2 THEN 0
    ELSE IF has_drive_letter_prefix(p) THEN 2
    ELSE IF ~is_slash(p[1]) THEN 0
    ELSE IF /\ Len(p) >= 4
            /\ is_slash(p[4])
            /\ (Len(p) = 4 \/ ~is_slash(p[5]))
            /\ \/ is_slash(p[2]) /\ p[3] \in {"?", "."}
               \/ p[2] = "?" /\ p[3] = "?"
    THEN 3
    ELSE IF Len(p) >= 3 /\ is_slash(p[2]) /\ ~is_slash(p[3])
    THEN LET slashes == {k \in 4 .. Len(p) : is_slash(p[k])}
         IN  IF slashes = {} THEN Len(p)
             ELSE (CHOOSE k \in slashes : \A j \in slashes : k <= j) - 1
    ELSE 0

\* A drive is absolute with a root directory ("C:\a", not "C:a"); every other
\* root name is absolute; a path without a root name is relative ("a", "\a").
is_absolute(p) ==
    IF has_drive_letter_prefix(p)
    THEN Len(p) >= 3 /\ is_slash(p[3])
    ELSE root_name_end(p) # 0

\* 392: current_path / url_path, path::operator/=.
\*  - An absolute right-hand side, or one with another root name, replaces
\*    the left-hand side.
\*  - A right-hand side with a root directory keeps the left-hand side's root
\*    name only.
\*  - Otherwise the preferred separator is appended to a left-hand side that
\*    ends in a file name, or that is a share's name alone.
\*  - Then the right-hand side is appended without its root name.
Slash(current_path, p) ==
    LET mine == root_name_end(current_path)
        other == root_name_end(p)
        rest == SubSeq(p, other + 1, Len(p))
    IN  IF is_absolute(p) THEN p
        ELSE IF other # 0
                  /\ SubSeq(current_path, 1, mine) # SubSeq(p, 1, other)
        THEN p
        ELSE IF other # Len(p) /\ is_slash(p[other + 1])
        THEN SubSeq(current_path, 1, mine) \o rest
        ELSE IF mine = Len(current_path)
        THEN (IF mine >= 3 THEN current_path \o <<"\\">> ELSE current_path)
                 \o rest
        ELSE IF ~is_slash(current_path[Len(current_path)])
        THEN current_path \o <<"\\">> \o rest
        ELSE current_path \o rest

RECURSIVE generic_string(_, _)
\* 393: path::generic_string(): the separators become "/" and the characters
\* are written in the process's code page.
generic_string(p, acp) ==
    IF p = <<>> THEN <<>>
    ELSE (IF Head(p) = "\\" THEN <<"/">>
          ELSE IF acp = "utf8" THEN Utf8Of(Head(p))
          ELSE <<Cp1252Byte(Head(p))>>)
         \o generic_string(Tail(p), acp)

\* 385-394: what is handed to ICoreWebView2::Navigate.
NavigateArgument(url_path, current_path, acp) ==
    IF starts_with(url_path, HttpPrefix) \/ starts_with(url_path, HttpsPrefix)
    THEN to_wstring(url_path)
    ELSE to_wstring(FilePrefix \o
                    generic_string(Slash(current_path,
                                         pathOf(url_path, acp)), acp))

\* The targets hosts pass to run: a scheme in some spelling or none, a
\* separator or none, and the rest (nothing, ASCII names, or U+00E9 in
\* UTF-8); and paths with a root directory, a drive or a share.
Schemes == {<<>>, <<"h", "t", "t", "p">>, <<"h", "t", "t", "p", "s">>,
            <<"H", "T", "T", "P">>, <<"H", "t", "t", "p", "s">>,
            <<"f", "t", "p">>}
Separators == {<<>>, <<":", "/", "/">>, <<":", "/">>}
Rests == {<<>>, <<"a">>, <<"a", "/", "b">>, <<"0xC3", "0xA9">>}
Targets == {s \o p \o r : s \in Schemes, p \in Separators, r \in Rests}
               \cup {<<"C", ":", "/", "a">>, <<"C", ":", "a">>, <<"C", ":">>,
                     <<"D", ":", "/", "a">>, <<"D", ":", "a">>,
                     <<"/", "a">>, <<"\\", "a">>, <<"a", "\\", "b">>,
                     <<"/", "/", "s", "/", "a">>}

\* The working directories: one in ASCII, one with U+00E9 in a name, the
\* root of a drive, and a directory of a share.
WorkingDirectories == {<<"C", ":", "\\", "a", "p", "p">>,
                       <<"C", ":", "\\", "U+00E9">>,
                       <<"C", ":", "\\">>,
                       <<"\\", "\\", "s", "\\", "d">>}

\* The process's code page for narrow path strings: Windows-1252, or UTF-8.
CodePages == {"1252", "utf8"}

\* 383-394: the shim is registered with the page handle, then one Navigate
\* is issued; THROW_IF_FAILED throws on a failure of either.
RunNavigate ==
    /\ nav.pc = "start"
    /\ \E scriptOk \in BOOLEAN, navigateOk \in BOOLEAN :
          nav' = IF ~scriptOk
                 THEN [nav EXCEPT !.pc = "threw"]
                 ELSE [nav EXCEPT
                          !.issued = Append(@, NavigateArgument(nav.url_path,
                                                   nav.current_path, nav.acp)),
                          !.pc = IF navigateOk THEN "loop" ELSE "threw"]
    /\ UNCHANGED <<shimVars, adapterVars, windowVars, dispatchVars>>

InitNavigate ==
    nav \in [url_path : Targets, current_path : WorkingDirectories,
             acp : CodePages, pc : {"start"}, issued : {<<>>}]

NextNavigate == RunNavigate

(***************************************************************************)
(* The specifications.  Each starts every part of the program in a state   *)
(* construction leaves it in and then runs one part; the choices another   *)
(* part's construction has (an idle callback or none, the monitor's scale) *)
(* are left to the specification of that part.                             *)
(***************************************************************************)
AdapterAtRest == InitAdapter /\ ~edge.idle
WindowAtRest == InitWindow /\ sizes.scale = 100
NavigateAtRest ==
    /\ InitNavigate
    /\ nav.url_path = <<>>
    /\ nav.current_path = <<"C", ":", "\\", "a", "p", "p">>
    /\ nav.acp = "1252"

InitForShim ==
    InitShim /\ AdapterAtRest /\ WindowAtRest /\ InitDispatch /\ NavigateAtRest
InitForWindow ==
    InitShim /\ AdapterAtRest /\ InitWindow /\ InitDispatch /\ NavigateAtRest
InitForDispatch ==
    InitShim /\ AdapterAtRest /\ WindowAtRest /\ InitDispatch /\ NavigateAtRest
InitForNavigate ==
    InitShim /\ AdapterAtRest /\ WindowAtRest /\ InitDispatch /\ InitNavigate
Init ==
    InitShim /\ InitAdapter /\ WindowAtRest /\ InitDispatch /\ NavigateAtRest

SpecShim == InitForShim /\ [][NextShim]_vars

SpecWindow == InitForWindow /\ [][NextWindow]_vars

SpecDispatch == InitForDispatch /\ [][NextDispatch]_vars

SpecNavigate == InitForNavigate /\ [][NextNavigate]_vars

NextAdapter == UIThread \/ Environment

SpecAdapter == Init /\ [][NextAdapter]_vars

\* The UI thread keeps running: a step it can take is eventually taken.
FairAdapter == SpecAdapter /\ WF_vars(UIThread)


(***************************************************************************)
(* Properties of the adapter.                                              *)
(***************************************************************************)
QueuedIds == [k \in 1 .. Len(edge.main_queue) |-> edge.main_queue[k].id]
EnqueuedIds == [k \in 1 .. obs.enqueued |-> k]

\* C3 as stated. FIFO work ordering: every enqueued item is executed exactly
\* once, in enqueue order, so when run returns the executed items are all the
\* enqueued items, in the order they were enqueued.
C3_EveryItemExecuted ==
    (thread.pc = "returned") => (obs.executed = EnqueuedIds)

\* C3 as amended. Every enqueued item is executed at most once, only inside
\* the run loop, in enqueue order: the executed items followed by the items
\* still queued are exactly the enqueued items.  An item that is still queued
\* when the loop ends is never executed.
C3_FifoAtMostOnce ==
    /\ obs.executed \o QueuedIds = EnqueuedIds
    /\ (obs.executed # <<>>) =>
          (thread.pc \in Running \cup {"close", "returned", "run_threw", "crashed"})
    /\ obs.quitConsumed => (obs.iterRan = 0 /\ thread.pc \notin Running)

\* run has returned having executed one item in order and left one queued.
C3_Witness ==
    /\ thread.pc = "returned"
    /\ obs.executed = <<1>>
    /\ QueuedIds = <<2>>

\* C4. Idle gating: the idle callback runs at most once in an iteration of
\* the loop, only in an iteration whose PeekMessage found no native message
\* and after main_queue.empty() was seen to hold, and no work item of the
\* iteration runs after it.
C4_IdleGating ==
    /\ obs.iterIdle <= 1
    /\ (obs.iterIdle = 1) => (obs.iterPeeked = "none" /\ obs.iterDrained)
    /\ ~obs.execAfterIdle

\* The idle callback ran in an iteration that first drained a work item.
C4_Witness ==
    /\ obs.iterIdle = 1
    /\ obs.iterRan >= 1

\* C6. A quit request issued while the loop is Running eventually makes run
\* leave the loop (run returns, or ends on a failed Close or a dead process).
C6_QuitLeadsToReturn ==
    obs.quitRequested ~> (thread.pc \in {"returned", "run_threw", "crashed"})

\* C7. Construction failures are reported synchronously: a failed step, an
\* asynchronous completion with an error included, makes the constructor
\* throw instead of going on, and the window is shown only after a
\* construction without failure.
C7_ConstructionFailureReported ==
    /\ (obs.failedStep # "none") => (thread.pc = "threw")
    /\ (obs.asyncError = "env") =>
          (thread.pc \in {"wait1_try", "wait1_get", "threw"})
    /\ (obs.asyncError = "ctl") =>
          (thread.pc \in {"wait2_try", "wait2_get", "threw"})
    /\ (obs.showCount > 0) =>
          (obs.failedStep = "none" /\ obs.asyncError = "none"
           /\ thread.pc \in Running \cup {"close", "returned", "run_threw", "crashed"})

\* C8. Single show: the window is shown by the first navigation-completed
\* event and by no later one, and the initialized flag is set from the first
\* event on.
C8_SingleShow ==
    /\ obs.showCount = (IF obs.navEvents > 0 THEN 1 ELSE 0)
    /\ edge.isInitialized = (obs.navEvents > 0)

\* A second navigation-completed event has been handled.
C8_Witness ==
    /\ obs.navEvents >= 2
    /\ obs.showCount = 1

\* Where the UI thread can be once Edge::Edge has asked the environment for
\* the controller, and once it has fetched the page handle and subscribed.
AfterControllerRequest ==
    {"wait2_try", "wait2_get", "ctor_subscribe", "ready", "close", "returned",
     "run_threw"} \cup Running
AfterSubscribe == {"ready", "close", "returned", "run_threw"} \cup Running

\* C13. Bootstrap ordering: whatever native messages, a quit message
\* included, interleave with the asynchronous callbacks, the controller is
\* requested only after the environment callback has run exactly once and
\* stored the environment, and the page handle is fetched and the events
\* subscribed only after the controller callback has run exactly once and
\* stored the controller.
C13_BootstrapOrdering ==
    /\ (thread.pc \in AfterControllerRequest) =>
          (obs.envRuns = 1 /\ edge.environment = "set")
    /\ (thread.pc \in AfterSubscribe) =>
          (obs.ctlRuns = 1 /\ edge.controller \in {"set", "closed"})

\* Where the UI thread is inside one of the two wait loops of Edge::Edge.
Waiting == {"wait1_try", "wait1_get", "wait2_try", "wait2_get"}

\* C14. Bootstrap wait progress: once a completion callback has released the
\* semaphore, on whatever thread, the constructing thread eventually leaves
\* the wait loop, with no further native message needed; and each wait
\* consumes one release, so the semaphore count is 0 when construction has
\* finished.
C14_WaitProgress ==
    /\ [](thread.pc = "ready" => edge.semaphore = 0)
    /\ (edge.semaphore > 0 /\ thread.pc \in Waiting) ~> (thread.pc \notin Waiting)

\* Where the UI thread can be once the loop has taken the quit message.
AfterLoop == {"close", "returned", "run_threw", "crashed"}

\* C15. Closing: run returns only after the loop has consumed a quit message;
\* from then on no native message is dispatched, no work item executed and
\* the idle callback not invoked; the controller is closed exactly once, after
\* the loop has ended and before run returns, never while the loop is
\* Running.  (For a run on an adapter whose construction left it a
\* controller: a call through a null controller is undefined.)
C15_Closing ==
    /\ (thread.pc = "returned" /\ ~obs.nullUse) =>
          (obs.quitConsumed /\ obs.closeCount = 1)
    /\ obs.quitConsumed =>
          /\ thread.pc \in AfterLoop
          /\ obs.iterPeeked = "quit"
          /\ obs.iterRan = 0
          /\ obs.iterIdle = 0
    /\ obs.closeCount <= 1
    /\ (obs.closeCount = 1) =>
          (obs.quitConsumed /\ thread.pc = "returned"
           /\ edge.controller = "closed")
    /\ (thread.pc \in Running) =>
          (obs.closeCount = 0 /\ edge.controller # "closed")

\* run has returned after one Close, leaving a work item and a native message
\* that came after the quit message untouched.
C15_Witness ==
    /\ thread.pc = "returned"
    /\ obs.closeCount = 1
    /\ edge.main_queue # <<>>
    /\ thread.nativeQ # <<>>
    /\ obs.executed # <<>>

\* The step dispatches a resize notification from the native queue.
ResizeDispatched ==
    /\ thread.pc \in {"wait1_get", "wait2_get", "peek"}
    /\ thread.nativeQ # <<>>
    /\ Head(thread.nativeQ) = "WM_SIZE"
    /\ thread'.nativeQ = Tail(thread.nativeQ)

\* The step is SetWindowPos of line 179, whose resize notification reaches
\* the window procedure before the instance is stored on the window.
ResizeBeforeAssociation ==
    /\ thread.pc = "ctor_scale"
    /\ thread'.pc = "ctor_assoc"

\* What the window procedure does for a resize notification while there is
\* no instance or no controller.
WithoutController ==
    /\ ResizeBeforeAssociation =>
          /\ edge' = edge
          /\ engine' = engine
          /\ thread'.quitFlag = thread.quitFlag
          /\ obs'.defProc
          /\ ~obs'.sizeNoop
          /\ obs'.putCalls = obs.putCalls
    /\ (ResizeDispatched /\ edge.controller = "null") =>
          /\ edge' = edge
          /\ engine' = engine
          /\ thread'.quitFlag = thread.quitFlag
          /\ obs'.defProc = obs.defProc
          /\ obs'.sizeNoop
          /\ obs'.putCalls = obs.putCalls

\* As stated: with a controller the bounds are set.
WindowProcedureStepAsStated ==
    /\ WithoutController
    /\ (ResizeDispatched /\ edge.controller # "null") =>
          edge' = [edge EXCEPT !.bounds = TRUE]

\* As amended: with a controller put_Bounds is called once; the bounds are
\* set, or nothing of the adapter changes.
WindowProcedureStep ==
    /\ WithoutController
    /\ (ResizeDispatched /\ edge.controller # "null") =>
          /\ obs'.putCalls = obs.putCalls + 1
          /\ obs'.defProc
          /\ \/ edge' = [edge EXCEPT !.bounds = TRUE]
             \/ edge' = edge

HasMember(m, key) == LastMember(m.members, key) # 0
MemberValue(m, key) == m.members[LastMember(m.members, key)].value
Routable(m, registry) ==
    /\ m.isString
    /\ m.syntax = "valid"
    /\ HasMember(m, "index")
    /\ HasMember(m, "func")
    /\ MemberValue(m, "index").kind = "uint"
    /\ MemberValue(m, "func").kind = "string"
    /\ MemberValue(m, "func").name \in registry

\* C5. Dispatch calls a host handler if and only if the message is a JSON
\* object with an unsigned integer index and a string func naming a registered
\* callback, and then calls exactly that handler once with the index and the
\* serialized args; for every other message no handler is called and the
\* handler returns normally.  The registry is never changed by a dispatch.
C5_Dispatch ==
    (inbound.count > 0) =>
        /\ Routable(inbound.last, inbound.registryBefore) <=>
              (Len(inbound.calls) = 1)
        /\ Routable(inbound.last, inbound.registryBefore) =>
              (inbound.calls = Call(MemberValue(inbound.last, "func").name,
                                    MemberValue(inbound.last, "index").val,
                                    ArgsData(inbound.last)))
        /\ inbound.result = "S_OK"

\* C19. Message buffer release: on every path through the inbound message
\* handler the buffer obtained from the engine is released before the handler
\* returns, so no sequence of inbound messages leaves a buffer unreleased.
C19_BufferReleased == inbound.unreleased = 0

(***************************************************************************)
(* Properties of window sizing.                                            *)
(***************************************************************************)
\* The DPI-scaled pair (w*scale/100, h*scale/100), in whole pixels.  The
\* quotient is taken in two parts so that the product stays in the range of
\* the model checker.
ScaledLength(v, sc) == (v \div 100) * sc + ((v % 100) * sc) \div 100
Scaled(args) ==
    Size(ScaledLength(args.width, sizes.scale),
         ScaledLength(args.height, sizes.scale))

\* C9. Max-size sentinel: once a size-constraints query has followed
\* setMaxSize(w,h): for (0,0) the maximize box is in the style and the query
\* left the max track size alone; for any other pair the maximize box is gone
\* and the query wrote the scaled pair as the max track size.
C9_MaxSizeSentinel ==
    (sizeObs.maxSet /\ sizeObs.queriedSinceMax) =>
        IF sizeObs.maxArgs = ZeroSize
        THEN sizes.maximizeBox /\ ~mmi.maxWritten
        ELSE /\ ~sizes.maximizeBox
             /\ mmi.maxWritten
             /\ mmi.ptMaxTrackSize = Scaled(sizeObs.maxArgs)

\* C10. Min-size constraints are changed only by setMinSize: a
\* size-constraints query made after setMinSize(w,h) returns the DPI-scaled
\* pair (w*scale/100, h*scale/100) as the min track size, whichever
\* setMaxSize, setSize and resize notifications came in between.
C10_MinSizeFrame ==
    (sizeObs.minSet /\ sizeObs.queriedSinceMin) =>
        mmi.ptMinTrackSize = Scaled(sizeObs.minArgs)

(***************************************************************************)
(* Properties of navigation.                                               *)
(***************************************************************************)
\* A scheme is written in either case.
Lower(c) ==
    CASE c = "H" -> "h"
      [] c = "T" -> "t"
      [] c = "P" -> "p"
      [] c = "S" -> "s"
      [] OTHER -> c

LowerCase(s) == [k \in 1 .. Len(s) |-> Lower(s[k])]

\* The target is an absolute http or https URL.
IsAbsoluteHttpUrl(s) ==
    \/ starts_with(LowerCase(s), HttpPrefix)
    \/ starts_with(LowerCase(s), HttpsPrefix)

\* The parts of a local path: the root it names (a drive, a share) and what
\* follows it.
RootName(p) == SubSeq(p, 1, root_name_end(p))
AfterRoot(p) == SubSeq(p, root_name_end(p) + 1, Len(p))
Rooted(p) == AfterRoot(p) # <<>> /\ is_slash(Head(AfterRoot(p)))

\* A local path resolved against the working directory:
\*  - a path that names a share or device, a drive with a root directory, or
\*    another drive than the working directory's, stands for itself;
\*  - a path that begins at the root directory is taken on the working
\*    directory's drive or share;
\*  - any other path is taken inside the working directory.
Resolved(path, cwd) ==
    IF RootName(path) # <<>> /\ ~has_drive_letter_prefix(path) THEN path
    ELSE IF RootName(path) # <<>> /\ Rooted(path) THEN path
    ELSE IF RootName(path) # <<>> /\ RootName(path) # RootName(cwd) THEN path
    ELSE IF Rooted(path) THEN RootName(cwd) \o AfterRoot(path)
    ELSE IF is_slash(cwd[Len(cwd)]) THEN cwd \o AfterRoot(path)
    ELSE cwd \o <<"/">> \o AfterRoot(path)

\* A path with "/" for every separator.
ForwardSlashes(p) ==
    [k \in 1 .. Len(p) |-> IF p[k] = "\\" THEN "/" ELSE p[k]]

\* The file URL of a local path resolved against the working directory, in
\* UTF-8: file:///<cwd>/<path>, with "/" for every separator.
FileUrl(url_path, current_path) ==
    FilePrefix \o ForwardSlashes(Resolved(url_path, to_string(current_path)))

\* C11. URL classification: once run has navigated, it has issued exactly one
\* navigation; for a target that is an absolute http or https URL the address
\* is that string, and for any other target it is the file URL of the target
\* resolved against the working directory.
C11_UrlClassification ==
    (nav.pc = "loop") =>
        /\ Len(nav.issued) = 1
        /\ to_string(nav.issued[1]) =
              (IF IsAbsoluteHttpUrl(nav.url_path) THEN nav.url_path
               ELSE FileUrl(nav.url_path, nav.current_path))

====
